---- MODULE Spec2Model ----
(***************************************************************************)
(* Model of src/client.py, the Polly-API client: the module's top-level    *)
(* statements (in file order), the ClientAuth session and the four         *)
(* operations register_user, vote_on_poll, get_poll_results and get_polls. *)
(*                                                                         *)
(* The caller is one thread that runs one operation at a time; an          *)
(* operation is split at its reads of the shared attribute auth.token      *)
(* (line 106, line 45, line 46) and at its network call.  Other code may   *)
(* assign auth.token: between calls under Spec, at any point under         *)
(* SpecConc.                                                               *)
(*                                                                         *)
(* LoadModule runs the module's top-level statements in the order the file *)
(* gives them, in the namespace the file is run in: empty for a plain      *)
(* `import client` or `python client.py`, or one in which the host has     *)
(* bound names beforehand (runpy.run_path(..., init_globals=...)).  The    *)
(* operations can be called once the load has completed.                   *)
(***************************************************************************)
EXTENDS Integers, Sequences, FiniteSets, TLC

VARIABLES
    modpc,      \* index into ModuleBody of the next top-level statement
    modStatus,  \* "loading", "loaded" or "NameError"
    globals,    \* names bound so far in the module's namespace
    token,      \* auth.token : Optional[str], <<>> is None and <<s>> is s
    pc,         \* position of the caller: "idle", "vote_check", "hdr_test", "hdr_fmt", "send"
    call,       \* the operation in progress (or the last one) and its arguments
    params,     \* get_polls: the local params (lines 205-208)
    headers,    \* the dict get_headers is building / has returned
    req,        \* the request this call has sent, NoReq when it has sent none
    result,     \* what the last call gave its caller
    resp,       \* history: what the transport gave this call, NoResp before that
    tokAtCall,  \* history: auth.token when the call began
    raced       \* history: auth.token was assigned after the call began and before
                \* get_headers had read it for the last time

vars == <<modpc, modStatus, globals, token, pc, call, params, headers, req,
          result, resp, tokAtCall, raced>>

----------------------------------------------------------------------------
(* Bounds of the model *)

MaxItems == 2          \* longest JSON array a response body carries
MaxId == 2             \* poll and option ids are 1..MaxId

(* Program constants *)

LimitFloor == 1
LimitCeiling == 100
SkipFloor == 0

----------------------------------------------------------------------------
(* Python values *)

None == <<>>
Some(s) == <<s>>

\* bool(x) for x : Optional[str]
Truthy(t) == t # None /\ t[1] # ""

\* str(x) for x : Optional[str], as an f-string renders it
PyStr(t) == IF t = None THEN "None" ELSE t[1]

Max(a, b) == IF a >= b THEN a ELSE b
Min(a, b) == IF a <= b THEN a ELSE b

DigitChars == <<"0", "1", "2", "3", "4", "5", "6", "7", "8", "9">>
IsDigit(c) == \E i \in 1..10 : DigitChars[i] = c
DigitVal(c) == (CHOOSE i \in 1..10 : DigitChars[i] = c) - 1

RECURSIVE LStrip(_)
LStrip(s) == IF s # <<>> /\ Head(s) = " " THEN LStrip(Tail(s)) ELSE s

RECURSIVE RStrip(_)
RStrip(s) == IF s # <<>> /\ s[Len(s)] = " " THEN RStrip(SubSeq(s, 1, Len(s) - 1)) ELSE s

RECURSIVE DigitsValue(_)
DigitsValue(s) == IF s = <<>> THEN 0
                  ELSE 10 * DigitsValue(SubSeq(s, 1, Len(s) - 1)) + DigitVal(s[Len(s)])

\* int(s) for a str s, given as its sequence of characters: surrounding
\* whitespace is dropped, one sign is allowed, the rest must be decimal digits.
\* [ok |-> FALSE] stands for ValueError.
PyIntOfStr(s) ==
    LET t == RStrip(LStrip(s))
        signed == t # <<>> /\ Head(t) \in {"-", "+"}
        d == IF signed THEN Tail(t) ELSE t
    IN  IF d # <<>> /\ \A i \in 1..Len(d) : IsDigit(d[i])
        THEN [ok |-> TRUE,
              val |-> IF signed /\ Head(t) = "-" THEN 0 - DigitsValue(d) ELSE DigitsValue(d)]
        ELSE [ok |-> FALSE, val |-> 0]

----------------------------------------------------------------------------
(* The module's top-level statements, in file order *)

Stmt(l, b, u) == [line |-> l, binds |-> b, uses |-> u]

ModuleBody == <<
    Stmt(1, {"requests"}, {}),
    Stmt(2, {"Dict", "List", "Optional", "Union", "TypedDict", "Literal", "Any"}, {}),
    Stmt(3, {"datetime"}, {}),
    Stmt(4, {"dataclass"}, {}),
    Stmt(7, {"BASE_URL"}, {}),
    Stmt(10, {"auth"}, {"ClientAuth"}),
    Stmt(13, {"OptionOut"}, {"TypedDict"}),
    Stmt(18, {"PollOut"}, {"TypedDict", "List", "OptionOut"}),
    Stmt(25, {"PollsResponse"}, {"TypedDict", "Union", "List", "PollOut", "Optional"}),
    Stmt(32, {"PollResults"}, {"TypedDict", "List", "Dict", "Any"}),
    Stmt(37, {"ClientAuth"}, {"dataclass", "Optional", "Dict"}),
    Stmt(49, {"register_user"}, {"Dict", "Union"}),
    Stmt(93, {"vote_on_poll"}, {"Dict", "Union"}),
    Stmt(149, {"get_poll_results"}, {"Dict", "Union", "PollResults"}),
    Stmt(188, {"get_polls"}, {"PollsResponse"}) >>

----------------------------------------------------------------------------
(* Inputs *)

Tokens == {None, Some(""), Some("tokA")}
Usernames == {"alice"}
Passwords == {"pw"}
Ids == 1..MaxId
\* (skip, limit) pairs: below, at, inside and above the limits of lines 206-207
PollsInputs == {<<-2, 0>>, <<0, 1>>, <<3, 10>>, <<0, 100>>, <<-1, 101>>, <<1, -4>>}

Statuses == {200, 304, 400, 401, 404, 500}

\* a page of n polls, given by their ids in the order the server sent them
ItemSeqs == {[i \in 1..n |-> n + 1 - i] : n \in 0..MaxItems}
Bodies == [json : {"list"}, items : ItemSeqs]
            \cup [json : {"null", "invalid"}, items : {<<>>}]
NoBody == [json |-> "none", items |-> <<>>]

TotalHeaderNames == {"X-Total-Count"}
TotalHeaderValues == {<<"4", "2">>, <<"-", "3">>, <<"a", "b", "c">>, <<>>}
ResponseHeaders == {{}} \cup {{<<n, v>>} : n \in TotalHeaderNames, v \in TotalHeaderValues}

\* What requests.get / requests.post gives: a response, or an exception of the
\* RequestException family when no response was obtained.
TransportOutcomes ==
    [got : {TRUE}, status : Statuses, body : Bodies, hdrs : ResponseHeaders, err : {""}]
      \cup [got : {FALSE}, status : {0}, body : {NoBody}, hdrs : {{}},
            err : {"ConnectionError"}]

NoResp == [got |-> FALSE, status |-> 0, body |-> NoBody, hdrs |-> {}, err |-> ""]


----------------------------------------------------------------------------
(* Results and requests *)

NoData == [kind |-> "none", text |-> "", body |-> NoBody]
Msg(t) == [kind |-> "message", text |-> t, body |-> NoBody]
Json(b) == [kind |-> "json", text |-> "", body |-> b]

NoResult == [outcome |-> "none", success |-> FALSE, data |-> NoData, extra |-> <<>>, exc |-> ""]
Ret(ok, d, x) == [outcome |-> "return", success |-> ok, data |-> d, extra |-> x, exc |-> ""]
Raise(e) == [outcome |-> "raise", success |-> FALSE, data |-> NoData, extra |-> <<>>, exc |-> e]

NoReq == [sent |-> FALSE, method |-> "", path |-> "", hdrs |-> {}, json |-> <<>>, query |-> <<>>]
Request(m, p, h, j, q) ==
    [sent |-> TRUE, method |-> m, path |-> p, hdrs |-> h, json |-> j, query |-> q]

NoCall == [op |-> "none", args |-> <<>>]

----------------------------------------------------------------------------
(* requests: the parts of the library the client relies on *)

\* Response.raise_for_status raises HTTPError for 4xx and 5xx, as line 70 says
RaisesHTTPError(status) == 400 <= status /\ status < 600

\* str(http_err)
HttpErrText(status) ==
    ToString(status) \o (IF status < 500 THEN " Client Error" ELSE " Server Error")

Lower(n) == IF n = "X-Total-Count" THEN "x-total-count" ELSE n

\* response.headers is case-insensitive in its keys
HeaderValues(hdrs, key) == {h[2] : h \in {g \in hdrs : Lower(g[1]) = Lower(key)}}

\* len(x) for a decoded JSON value; [ok |-> FALSE] stands for TypeError
PyLen(b) == IF b.json = "list"
            THEN [ok |-> TRUE, val |-> Len(b.items)]
            ELSE [ok |-> FALSE, val |-> 0]

----------------------------------------------------------------------------
(* ClientAuth.get_headers, lines 42-47 *)

ContentType == <<"Content-Type", "application/json">>

BearerHeaderTokenScheme(t) == <<"Authorization", "Token " \o PyStr(t)>>

BearerHeader(t) == <<"Authorization", "Bearer " \o PyStr(t)>>

----------------------------------------------------------------------------
(* The four operations: what each gives its caller for a transport outcome  *)
(* o.  On a body that is not JSON response.json() raises requests'          *)
(* JSONDecodeError, which is a RequestException, so the last except clause  *)
(* of each operation takes it.                                              *)

\* lines 68-91
register_user(o) ==
    IF ~o.got THEN Ret(FALSE, Msg("Request error occurred: " \o o.err), <<>>)
    ELSE IF RaisesHTTPError(o.status) THEN
        IF o.status = 400 THEN Ret(FALSE, Msg("Username already registered"), <<>>)
        ELSE Ret(FALSE, Msg("HTTP error occurred: " \o HttpErrText(o.status)), <<>>)
    ELSE IF o.body.json = "invalid"
    THEN Ret(FALSE, Msg("Request error occurred: JSONDecodeError"), <<>>)
    ELSE Ret(TRUE, Json(o.body), <<>>)

\* lines 115-147
vote_on_poll(o) ==
    IF ~o.got THEN Ret(FALSE, Msg("Request error occurred: " \o o.err), <<>>)
    ELSE IF RaisesHTTPError(o.status) THEN
        IF o.status = 401
        THEN Ret(FALSE, Msg("Unauthorized. Please check your authentication."), <<>>)
        ELSE IF o.status = 404 THEN Ret(FALSE, Msg("Poll or option not found."), <<>>)
        ELSE Ret(FALSE, Msg("HTTP error occurred: " \o HttpErrText(o.status)), <<>>)
    ELSE IF o.body.json = "invalid"
    THEN Ret(FALSE, Msg("Request error occurred: JSONDecodeError"), <<>>)
    ELSE Ret(TRUE, Json(o.body), <<>>)

\* lines 163-186
get_poll_results(o) ==
    IF ~o.got THEN Ret(FALSE, Msg("Request error occurred: " \o o.err), <<>>)
    ELSE IF RaisesHTTPError(o.status) THEN
        IF o.status = 404 THEN Ret(FALSE, Msg("Poll not found."), <<>>)
        ELSE Ret(FALSE, Msg("HTTP error occurred: " \o HttpErrText(o.status)), <<>>)
    ELSE IF o.body.json = "invalid"
    THEN Ret(FALSE, Msg("Request error occurred: JSONDecodeError"), <<>>)
    ELSE Ret(TRUE, Json(o.body), <<>>)

\* lines 205-208
ClampSkip(skip) == Max(SkipFloor, skip)
ClampLimitNoFloor(limit) == Min(LimitCeiling, limit)

ClampLimit(limit) == Max(LimitFloor, Min(LimitCeiling, limit))
PollsParams(skip, limit) == [skip |-> ClampSkip(skip), limit |-> ClampLimit(limit)]

Page(total, p) == <<[total |-> total, skip |-> p.skip, limit |-> p.limit]>>

PollsFailureNoTotal(text, p) == Ret(FALSE, Msg(text), Page(-1, p))

\* lines 225-231 and 233-239
PollsFailure(text, p) == Ret(FALSE, Msg(text), Page(0, p))

\* line 219: int(response.headers.get('x-total-count', len(polls_data))).
\* The default is an argument, so len() runs first, header or no header.
PollsTotal(o) ==
    LET n == PyLen(o.body)
        found == HeaderValues(o.hdrs, "x-total-count")
    IN  IF ~n.ok THEN [ok |-> FALSE, val |-> 0, exc |-> "TypeError"]
        ELSE IF found = {} THEN [ok |-> TRUE, val |-> n.val, exc |-> ""]
        ELSE LET i == PyIntOfStr(CHOOSE v \in found : TRUE)
             IN  [ok |-> i.ok, val |-> i.val, exc |-> IF i.ok THEN "" ELSE "ValueError"]

\* lines 210-239
get_polls(p, o) ==
    IF ~o.got THEN PollsFailure("Request error occurred: " \o o.err, p)
    ELSE IF RaisesHTTPError(o.status)
    THEN PollsFailure("HTTP error occurred: " \o HttpErrText(o.status), p)
    ELSE IF o.body.json = "invalid"
    THEN PollsFailure("Request error occurred: JSONDecodeError", p)
    ELSE LET t == PollsTotal(o)
         IN  IF t.ok THEN Ret(TRUE, Json(o.body), Page(t.val, p)) ELSE Raise(t.exc)

----------------------------------------------------------------------------
(* State machine *)

NoParams == [skip |-> 0, limit |-> 0]

\* The names bound in the namespace before the file runs: none, or the class of
\* lines 37-47 supplied by the host.
Namespaces == {{}, {"ClientAuth"}}

Init ==
    /\ modpc = 1
    /\ modStatus = "loading"
    /\ globals \in Namespaces
    /\ token = None                 \* lines 10, 40: ClientAuth() has token None
    /\ pc = "idle"
    /\ call = NoCall
    /\ params = NoParams
    /\ headers = {}
    /\ req = NoReq
    /\ result = NoResult
    /\ resp = NoResp
    /\ tokAtCall = None
    /\ raced = FALSE

clientVars == <<token, pc, call, params, headers, req, result, resp, tokAtCall, raced>>

\* The interpreter runs the top-level statements from statement i on, with g
\* the names bound so far: a name a statement reads must already be bound in the
\* module's namespace, else NameError ends the load at that statement.
RECURSIVE RunModule(_, _)
RunModule(i, g) ==
    IF i > Len(ModuleBody) THEN [status |-> "loaded", at |-> i, names |-> g]
    ELSE IF ModuleBody[i].uses \subseteq g THEN RunModule(i + 1, g \cup ModuleBody[i].binds)
    ELSE [status |-> "NameError", at |-> i, names |-> g]

\* `import client`
LoadModule ==
    /\ modStatus = "loading"
    /\ LET r == RunModule(modpc, globals)
       IN  /\ modStatus' = r.status
           /\ modpc' = r.at
           /\ globals' = r.names
    /\ UNCHANGED clientVars

Begin(c, p, next) ==
    /\ modStatus = "loaded"
    /\ pc = "idle"
    /\ call' = c
    /\ params' = p
    /\ pc' = next
    /\ headers' = {}
    /\ req' = NoReq
    /\ result' = NoResult
    /\ resp' = NoResp
    /\ tokAtCall' = token
    /\ raced' = FALSE
    /\ UNCHANGED <<token, modpc, modStatus, globals>>

\* lines 62-66: no session read before the request
CallRegisterUser(u, p) ==
    Begin([op |-> "register_user", args |-> <<u, p>>], NoParams, "send")

\* lines 204-208
CallGetPolls(skip, limit) ==
    Begin([op |-> "get_polls", args |-> <<skip, limit>>], PollsParams(skip, limit), "hdr_test")

\* line 161
CallGetPollResults(id) ==
    Begin([op |-> "get_poll_results", args |-> <<id>>], NoParams, "hdr_test")

AuthRequiredInverted(t) == Truthy(t)

\* line 106: `not auth.token`
AuthRequired(t) == ~Truthy(t)

\* lines 106-113: the local precondition, read of auth.token included
CallVoteOnPoll(id, opt) ==
    /\ modStatus = "loaded"
    /\ pc = "idle"
    /\ call' = [op |-> "vote_on_poll", args |-> <<id, opt>>]
    /\ params' = NoParams
    /\ headers' = {}
    /\ req' = NoReq
    /\ resp' = NoResp
    /\ tokAtCall' = token
    /\ raced' = FALSE
    /\ IF AuthRequired(token)
       THEN /\ result' = Ret(FALSE, Msg("Authentication required. Please log in first."), <<>>)
            /\ pc' = "idle"
       ELSE /\ result' = NoResult
            /\ pc' = "hdr_test"
    /\ UNCHANGED <<token, modpc, modStatus, globals>>

HdrTestSkipsToken ==
    /\ pc = "hdr_test"
    /\ headers' = {ContentType}
    /\ pc' = "send"
    /\ UNCHANGED <<token, call, params, req, result, resp, tokAtCall, raced,
                   modpc, modStatus, globals>>

\* lines 44-45: the dict is created and self.token is tested
HdrTest ==
    /\ pc = "hdr_test"
    /\ headers' = {ContentType}
    /\ pc' = IF Truthy(token) THEN "hdr_fmt" ELSE "send"
    /\ UNCHANGED <<token, call, params, req, result, resp, tokAtCall, raced,
                   modpc, modStatus, globals>>

\* line 46: self.token is read again, for the f-string
HdrFmt ==
    /\ pc = "hdr_fmt"
    /\ headers' = headers \cup {BearerHeader(token)}
    /\ pc' = "send"
    /\ UNCHANGED <<token, call, params, req, result, resp, tokAtCall, raced,
                   modpc, modStatus, globals>>

PollPath(id, tail) == "/polls/" \o ToString(id) \o tail

\* lines 69, 116-120, 164, 211
RequestOf(c, p, h) ==
    CASE c.op = "register_user" -> Request("POST", "/register", {}, c.args, <<>>)
      [] c.op = "vote_on_poll" ->
            Request("POST", PollPath(c.args[1], "/vote"), h, <<c.args[2]>>, <<>>)
      [] c.op = "get_poll_results" ->
            Request("GET", PollPath(c.args[1], "/results"), h, <<>>, <<>>)
      [] c.op = "get_polls" -> Request("GET", "/polls", h, <<>>, <<p.skip, p.limit>>)

ResultOf(c, p, o) ==
    CASE c.op = "register_user" -> register_user(o)
      [] c.op = "vote_on_poll" -> vote_on_poll(o)
      [] c.op = "get_poll_results" -> get_poll_results(o)
      [] c.op = "get_polls" -> get_polls(p, o)

SendLogsOutOn401 ==
    /\ pc = "send"
    /\ \E o \in TransportOutcomes :
          /\ req' = RequestOf(call, params, headers)
          /\ resp' = o
          /\ result' = ResultOf(call, params, o)
          /\ token' = IF o.got /\ o.status = 401 THEN None ELSE token
    /\ pc' = "idle"
    /\ UNCHANGED <<call, params, headers, tokAtCall, raced, modpc, modStatus, globals>>

\* The request goes out, the transport answers (or fails), and the rest of the
\* function body turns the outcome into what the caller gets.
Send ==
    /\ pc = "send"
    /\ \E o \in TransportOutcomes :
          /\ req' = RequestOf(call, params, headers)
          /\ resp' = o
          /\ result' = ResultOf(call, params, o)
    /\ pc' = "idle"
    /\ UNCHANGED <<token, call, params, headers, tokAtCall, raced,
                   modpc, modStatus, globals>>

\* Other code assigns auth.token (line 250 shows the intended use), between calls
AssignToken(t) ==
    /\ modStatus = "loaded"
    /\ pc = "idle"
    /\ t # token
    /\ token' = t
    /\ UNCHANGED <<pc, call, params, headers, req, result, resp, tokAtCall, raced,
                   modpc, modStatus, globals>>

\* ... or from another thread while a call is running
RaceAssignToken(t) ==
    /\ pc # "idle"
    /\ t # token
    /\ token' = t
    /\ raced' = (raced \/ pc \in {"hdr_test", "hdr_fmt"})
    /\ UNCHANGED <<pc, call, params, headers, req, result, resp, tokAtCall,
                   modpc, modStatus, globals>>

ClientStep ==
    \/ \E u \in Usernames, p \in Passwords : CallRegisterUser(u, p)
    \/ \E a \in PollsInputs : CallGetPolls(a[1], a[2])
    \/ \E id \in Ids, opt \in Ids : CallVoteOnPoll(id, opt)
    \/ \E id \in Ids : CallGetPollResults(id)
    \/ HdrTest
    \/ HdrFmt
    \/ Send

Next ==
    \/ LoadModule
    \/ ClientStep
    \/ \E t \in Tokens : AssignToken(t)

Spec == Init /\ [][Next]_vars

NextConc ==
    \/ Next
    \/ \E t \in Tokens : RaceAssignToken(t)

SpecConc == Init /\ [][NextConc]_vars

----------------------------------------------------------------------------
(* Properties *)

Done(op) == pc = "idle" /\ call.op = op /\ result.outcome # "none"

Is2xx(status) == 200 <= status /\ status < 300

HasAuthorization(h) == \E x \in h : x[1] = "Authorization"

SessionOps == {"get_polls", "vote_on_poll", "get_poll_results"}

\* C1: no operation ever raises to its caller; every call ends by returning a
\* result value, whatever the session state and the transport outcome.
C1_NoOperationRaises == result.outcome # "raise"

\* C2: vote_on_poll called while no token is set returns the failure
\* "Authentication required. Please log in first." at once and sends no request.
C2_VoteWithoutTokenFailsLocally ==
    (call.op = "vote_on_poll" /\ tokAtCall = None) =>
        /\ pc = "idle"
        /\ result = Ret(FALSE, Msg("Authentication required. Please log in first."), <<>>)
        /\ ~req.sent

C2_Witness ==
    /\ Done("vote_on_poll")
    /\ tokAtCall = None
    /\ result.data.text = "Authentication required. Please log in first."
    /\ ~req.sent

\* C3: the request get_polls sends carries skip' = max(0, skip) and
\* limit' = min(100, max(1, limit)); so skip' >= 0 and 1 <= limit' <= 100, values
\* in range go out unchanged, and every call does send its request.
C3_PollsRequestIsClamped ==
    /\ (call.op = "get_polls" /\ req.sent) =>
          LET skip == call.args[1]
              limit == call.args[2]
          IN  /\ req.query = <<IF skip < 0 THEN 0 ELSE skip,
                               Min(100, IF limit < 1 THEN 1 ELSE limit)>>
              /\ req.query[1] >= 0
              /\ 1 <= req.query[2] /\ req.query[2] <= 100
              /\ (skip >= 0 /\ 1 <= limit /\ limit <= 100) => req.query = <<skip, limit>>
    /\ Done("get_polls") => req.sent

C3_Witness ==
    /\ call = [op |-> "get_polls", args |-> <<-1, 101>>]
    /\ req.sent
    /\ req.query = <<0, 100>>

\* C4: every failure result of get_polls, for an HTTP status or for a transport
\* failure, carries total = 0 and the clamped skip and limit of the request.
C4_PollsFailureCarriesClamped ==
    (Done("get_polls") /\ result.outcome = "return" /\ ~result.success) =>
        /\ result.extra = <<[total |-> 0, skip |-> req.query[1], limit |-> req.query[2]]>>
        /\ result.extra[1].skip = (IF call.args[1] < 0 THEN 0 ELSE call.args[1])
        /\ result.extra[1].limit = Min(100, IF call.args[2] < 1 THEN 1 ELSE call.args[2])

C4_Witness ==
    /\ Done("get_polls")
    /\ call.args = <<-2, 0>>
    /\ resp.got /\ resp.status = 500
    /\ ~result.success
    /\ result.extra = <<[total |-> 0, skip |-> 0, limit |-> 1]>>

\* C5: on a successful get_polls response the result is a success carrying the
\* items in the order received, with total the integer value of the total-count
\* header when it is present and parses, and the number of items when the header
\* is absent or malformed.
C5_TotalFromHeaderOrPageSize ==
    (Done("get_polls") /\ resp.got /\ Is2xx(resp.status) /\ resp.body.json = "list") =>
        LET found == HeaderValues(resp.hdrs, "X-Total-Count")
            n == Len(resp.body.items)
            expected == IF found = {} THEN n
                        ELSE LET i == PyIntOfStr(CHOOSE v \in found : TRUE)
                             IN  IF i.ok THEN i.val ELSE n
        IN  /\ result.outcome = "return"
            /\ result.success
            /\ result.data = Json(resp.body)
            /\ result.extra[1].total = expected

MappedMessage(op, status) ==
    CASE op = "register_user" /\ status = 400 -> <<"Username already registered">>
      [] op = "vote_on_poll" /\ status = 401 -> <<"Unauthorized. Please check your authentication.">>
      [] op = "vote_on_poll" /\ status = 404 -> <<"Poll or option not found.">>
      [] op = "get_poll_results" /\ status = 404 -> <<"Poll not found.">>
      [] OTHER -> <<>>

\* C6: for every operation, a 2xx status yields success; a non-2xx status the
\* operation maps yields exactly its fixed message; any other non-2xx status
\* yields a failure with the generic HTTP-error message; no response yields a
\* failure with the generic request-error message.
C6_StatusDecidesResult ==
    (pc = "idle" /\ req.sent) =>
        /\ result.outcome = "return"
        /\ (resp.got /\ Is2xx(resp.status)) => result.success
        /\ (resp.got /\ ~Is2xx(resp.status)) =>
              /\ ~result.success
              /\ result.data.text =
                    (IF MappedMessage(call.op, resp.status) # <<>>
                     THEN MappedMessage(call.op, resp.status)[1]
                     ELSE "HTTP error occurred: " \o HttpErrText(resp.status))
        /\ ~resp.got =>
              /\ ~result.success
              /\ result.data.text = "Request error occurred: " \o resp.err

\* C7: no client operation changes the session token: the token changes only in
\* a step that is no part of a call, an assignment by other code.
C7_ClientKeepsToken ==
    [][/\ ClientStep => token' = token
       /\ token' # token => (pc = "idle" /\ UNCHANGED <<pc, call, req, resp, result>>)]_vars

C7_Witness ==
    /\ Done("vote_on_poll")
    /\ resp.got /\ resp.status = 401
    /\ result.data.text = "Unauthorized. Please check your authentication."
    /\ token = tokAtCall
    /\ Truthy(token)

\* C8 as stated: every request of get_polls, vote_on_poll and get_poll_results
\* carries Content-Type: application/json, and Authorization: Bearer <t> exactly
\* when the session token is set (is not None), t being its value; get_polls and
\* get_poll_results send their request also when it is not set.
C8_AuthorizationIffTokenSet ==
    /\ (req.sent /\ call.op \in SessionOps) =>
          req.hdrs = (IF tokAtCall # None THEN {ContentType, BearerHeader(tokAtCall)}
                      ELSE {ContentType})
    /\ (pc = "idle" /\ call.op \in {"get_polls", "get_poll_results"}) => req.sent

\* C8 amended: ... carries Authorization: Bearer <t> exactly when the session
\* token is a non-empty string t; with the token None or "" the request of
\* get_polls and get_poll_results goes out without an Authorization header.
C8_AuthorizationIffTokenNonEmpty ==
    /\ (req.sent /\ call.op \in SessionOps) =>
          /\ ContentType \in req.hdrs
          /\ HasAuthorization(req.hdrs) <=> (tokAtCall # None /\ tokAtCall # Some(""))
          /\ HasAuthorization(req.hdrs) =>
                req.hdrs = {ContentType, <<"Authorization", "Bearer " \o tokAtCall[1]>>}
    /\ (pc = "idle" /\ call.op \in {"get_polls", "get_poll_results"}) => req.sent

C8_Witness ==
    /\ req.sent
    /\ call.op = "get_poll_results"
    /\ tokAtCall = Some("tokA")
    /\ req.hdrs = {<<"Content-Type", "application/json">>, <<"Authorization", "Bearer tokA">>}

C10_LoadLeavesUnauthenticatedSession ==
    modStatus # "loading" =>
        /\ modStatus = "loaded"
        /\ {"auth", "register_user", "get_polls", "vote_on_poll", "get_poll_results"}
              \subseteq globals

====
